---- MODULE Spec2Model ----
(***************************************************************************)
(* RustMath MCP server: the stdin/stdout processing loop (src/main.rs),    *)
(* the message reader (src/protocol/parser.rs), the method dispatcher and  *)
(* response writer (src/protocol/mod.rs), the tool registry                *)
(* (src/tools/registry.rs, src/tools/basic_math.rs), the batch tool        *)
(* (src/tools/batch.rs) and the rate limiter (src/utils/rate_limiter.rs).  *)
(*                                                                         *)
(* JSON values are tagged records: the tag t keeps the JSON type, so that  *)
(* the number 7 and the string "7" are different values.  Option::None is  *)
(* the value None.  A formatted string (format!) is the sequence of its    *)
(* parts.                                                                  *)
(***************************************************************************)
EXTENDS Integers, Sequences, FiniteSets, TLC

VARIABLES
    stdin,      \* bytes written by the client, not yet read by the BufReader
    closed,     \* the client has closed its end of the stream
    pending,    \* rest of the message the client is writing
    sent,       \* messages the client has started to write, in order
    buf,        \* BufReader's internal buffer (main.rs:40)
    body_len,   \* declared Content-Length of the running parse_message
    pc,         \* position of main inside the loop / inside parse_message
    line,       \* first_line / json_buffer of the running parse_message
    nread,      \* bytes consumed by the running parse_message call
    pres,       \* McpResult<ParseResult> of the last parse_message call
    out,        \* stdout: one entry per write! of send_response
    hist,       \* one entry per finished loop iteration
    call,       \* arguments of the last handle_method_with_config call
    ret,        \* its McpResult<JsonRpcResponse>
    limiter,    \* RateLimiterState behind the Arc<Mutex<..>> (None: no limiter)
    clock,      \* Instant::now(), in ticks
    mutex,      \* thread that holds the Mutex, 0 when it is free
    threads,    \* position and locals of each thread inside the limiter's methods
    log         \* the finished check_rate_limit calls, in lock order

limiterVars == <<limiter, clock, mutex, threads, log>>

serverVars == <<stdin, closed, pending, sent, buf, body_len, pc, line, nread, pres, out, hist, call, ret>>

vars == <<stdin, closed, pending, sent, buf, body_len, pc, line, nread, pres, out, hist, call, ret,
          limiter, clock, mutex, threads, log>>

(***************************************************************************)
(* serde_json::Value and Option                                            *)
(***************************************************************************)
None == [t |-> "none"]
JNull == [t |-> "null"]
JNum(n) == [t |-> "num", v |-> n]
JStr(s) == [t |-> "str", v |-> s]
JBool(b) == [t |-> "bool", v |-> b]
JArr(s) == [t |-> "arr", v |-> s]
JObj(f) == [t |-> "obj", v |-> f]
EmptyMap == [k \in {} |-> JNull]

\* Value's Index<&str>: Null unless the value is an object that has the key
Index(value, key) ==
    IF value.t = "obj" /\ key \in DOMAIN value.v THEN value.v[key] ELSE JNull

(***************************************************************************)
(* Program constants                                                       *)
(***************************************************************************)
JSON_RPC_VERSION == "2.0"
INITIALIZE == "initialize"
TOOLS_LIST == "tools/list"
TOOLS_CALL == "tools/call"
PARSE_ERROR == -32700
INVALID_REQUEST == -32600
INVALID_PARAMS == -32602
INTERNAL_ERROR == -32603
TOOL_ERROR == -32000
VALIDATION_ERROR == -32001
RESOURCE_LIMIT == -32002
MAX_CONTENT_LENGTH == 10000000
max_array_size == 10000
DEFAULT_NAME == "rust-math-mcp"
DEFAULT_VERSION == "0.1.0"

(***************************************************************************)
(* McpError and McpResult                                                  *)
(***************************************************************************)
McpError(code, message) == [code |-> code, message |-> message]
Ok(value) == [ok |-> TRUE, val |-> value]
Err(e) == [ok |-> FALSE, err |-> e]

\* impl From<serde_json::Error> for McpError
FromSerdeError(e) == McpError(PARSE_ERROR, <<"JSON parse error: ">> \o e)

(***************************************************************************)
(* Tools: utils/args.rs, tools/basic_math.rs, tools/registry.rs            *)
(***************************************************************************)
\* get_number: the f64 under key; JSON numbers are always finite
get_number(arguments, key) ==
    LET value == Index(arguments, key) IN
    IF value.t # "num"
    THEN Err(McpError(INVALID_PARAMS, <<"Invalid argument: ", key, " must be a number">>))
    ELSE Ok(value.v)

RECURSIVE SumSeq(_)
SumSeq(s) == IF s = <<>> THEN 0 ELSE Head(s) + SumSeq(Tail(s))

RECURSIVE ProductSeq(_)
ProductSeq(s) == IF s = <<>> THEN 1 ELSE Head(s) * ProductSeq(Tail(s))

get_number_array(arguments, key) ==
    LET arr == Index(arguments, key) IN
    IF arr.t # "arr"
    THEN Err(McpError(INVALID_PARAMS, <<"Invalid arguments: ", key, " must be an array">>))
    ELSE IF Len(arr.v) > max_array_size
    THEN Err(McpError(RESOURCE_LIMIT, <<"Array size ", ToString(Len(arr.v)),
                                        " exceeds maximum allowed size of ", ToString(max_array_size)>>))
    ELSE IF \E i \in 1..Len(arr.v) : arr.v[i].t # "num"
    THEN Err(McpError(INVALID_PARAMS, <<"Invalid arguments: ", key, " must be an array of numbers">>))
    ELSE Ok([i \in 1..Len(arr.v) |-> arr.v[i].v])

result_json(value) == JObj([result |-> JNum(value)])

\* f64 division on the integers of the model: an exact quotient is a number,
\* any other is kept as the fraction
divide(a, b) ==
    IF b = 0
    THEN Err(McpError(VALIDATION_ERROR, <<"Division by zero">>))
    ELSE Ok(IF a % b = 0 THEN JNum(a \div b) ELSE [t |-> "frac", num |-> a, den |-> b])

modulo(a, b) ==
    IF b = 0
    THEN Err(McpError(VALIDATION_ERROR, <<"Modulo by zero">>))
    ELSE Ok(JNum(a % b))

\* the value computed by an arm of an executor whose arithmetic is not
\* modelled: the arm is entered, and what it returns is its own
Computed(name) == Ok([t |-> "computed", v |-> name])

\* basic_math::execute; the arithmetic of five of its arms is modelled
basic_math_execute(name, arguments) ==
    LET a == get_number(arguments, "a")
        b == get_number(arguments, "b")
        numbers == get_number_array(arguments, "numbers")
        Binary(op(_, _)) ==
            IF ~a.ok THEN a ELSE IF ~b.ok THEN b
            ELSE LET r == op(a.val, b.val) IN
                 IF r.ok THEN Ok(JObj([result |-> r.val])) ELSE r
        subtract(x, y) == Ok(JNum(x - y))
    IN
    CASE name = "add" -> IF numbers.ok THEN Ok(result_json(SumSeq(numbers.val))) ELSE numbers
      [] name = "subtract" -> Binary(subtract)
      [] name = "multiply" -> IF numbers.ok THEN Ok(result_json(ProductSeq(numbers.val))) ELSE numbers
      [] name = "divide" -> Binary(divide)
      [] name = "modulo" -> Binary(modulo)
      [] name \in {"power", "sqrt", "abs", "round", "floor", "ceil"} -> Computed(name)
      [] OTHER -> Err(McpError(TOOL_ERROR, <<"Unknown basic math tool: ", name>>))

TOOL_BATCH == "batch_operations"
MAX_BATCH_SIZE == 50

(***************************************************************************)
(* The tool modules.  Each is the names of the descriptors that its        *)
(* get_tool_definitions returns, in order, and, for the modules whose      *)
(* arithmetic is not modelled, the names that the match of its execute has *)
(* an arm for and the message of the match's last arm.                     *)
(***************************************************************************)
basic_math ==
    [module |-> "basic_math",
     definitions |-> <<"add", "subtract", "multiply", "divide", "power", "sqrt", "abs",
                       "round", "floor", "ceil", "modulo">>]

batch == [module |-> "batch", definitions |-> <<TOOL_BATCH>>]

algebra ==
    [module |-> "algebra",
     definitions |-> <<"gcd", "lcm", "factorial">>,
     arms |-> {"gcd", "lcm", "factorial"},
     unknown |-> "Unknown algebra tool: "]

statistics_noSum ==
    [module |-> "statistics",
     definitions |-> <<"mean", "median", "mode", "std_dev", "variance", "min", "max", "sum", "product">>,
     arms |-> {"mean", "median", "mode", "variance", "std_dev", "min", "max", "product"},
     unknown |-> "Unknown statistics tool: "]

statistics ==
    [module |-> "statistics",
     definitions |-> <<"mean", "median", "mode", "std_dev", "variance", "min", "max", "sum", "product">>,
     arms |-> {"mean", "median", "mode", "variance", "std_dev", "min", "max", "sum", "product"},
     unknown |-> "Unknown statistics tool: "]

geometry ==
    [module |-> "geometry",
     definitions |-> <<"area_circle", "area_rectangle", "area_triangle", "area_trapezoid",
                       "volume_sphere", "volume_cylinder", "volume_cone", "volume_rectangular_prism">>,
     arms |-> {"area_circle", "area_rectangle", "area_triangle", "area_trapezoid",
               "volume_sphere", "volume_cylinder", "volume_cone", "volume_rectangular_prism"},
     unknown |-> "Unknown geometry tool: "]

equations ==
    [module |-> "equations",
     definitions |-> <<"quadratic_formula", "distance_formula", "pythagorean_theorem", "slope", "midpoint">>,
     arms |-> {"quadratic_formula", "distance_formula", "pythagorean_theorem", "slope", "midpoint"},
     unknown |-> "Unknown equations tool: "]

trigonometry ==
    [module |-> "trigonometry",
     definitions |-> <<"sin", "cos", "tan", "asin", "acos", "atan", "law_of_cosines", "law_of_sines",
                       "degrees_to_radians", "radians_to_degrees">>,
     arms |-> {"sin", "cos", "tan", "asin", "acos", "atan", "law_of_cosines", "law_of_sines",
               "degrees_to_radians", "radians_to_degrees"},
     unknown |-> "Unknown trigonometry tool: "]

finance ==
    [module |-> "finance",
     definitions |-> <<"compound_interest", "simple_interest", "percentage">>,
     arms |-> {"compound_interest", "simple_interest", "percentage"},
     unknown |-> "Unknown finance tool: "]

combinatorics ==
    [module |-> "combinatorics",
     definitions |-> <<"permutation", "combination">>,
     arms |-> {"permutation", "combination"},
     unknown |-> "Unknown combinatorics tool: "]

advanced ==
    [module |-> "advanced",
     definitions |-> <<"exponential_growth", "logarithm">>,
     arms |-> {"exponential_growth", "logarithm"},
     unknown |-> "Unknown advanced tool: "]

\* execute of a module whose arithmetic is not modelled: the match on the name
module_execute(executor, name, arguments) ==
    IF name \in executor.arms THEN Computed(name)
    ELSE Err(McpError(TOOL_ERROR, <<executor.unknown, name>>))

\* registry.rs:69-81: every name of the definitions is inserted with the
\* executor; HashMap::insert replaces the entry of a name already present
register_tools_legacy(registry, definitions, executor) ==
    [n \in {definitions[i] : i \in 1..Len(definitions)} |-> executor] @@ registry

\* TOOL_REGISTRY: name -> executor, in the order of the inserts
TOOL_REGISTRY ==
    LET consts == [n \in {"add", "subtract", "multiply", "divide", "power", "sqrt", "abs",
                          "round", "floor", "ceil", "modulo"} |-> basic_math]
        withBatch == [n \in {TOOL_BATCH} |-> batch] @@ consts
    IN register_tools_legacy(
         register_tools_legacy(
           register_tools_legacy(
             register_tools_legacy(
               register_tools_legacy(
                 register_tools_legacy(
                   register_tools_legacy(
                     register_tools_legacy(withBatch, algebra.definitions, algebra),
                     statistics.definitions, statistics),
                   geometry.definitions, geometry),
                 equations.definitions, equations),
               trigonometry.definitions, trigonometry),
             finance.definitions, finance),
           combinatorics.definitions, combinatorics),
         advanced.definitions, advanced)

\* TOOL_DEFINITIONS: the descriptors of the modules, in the order of the extends
TOOL_DEFINITIONS ==
    LET all_tools == basic_math.definitions \o batch.definitions \o algebra.definitions
                     \o statistics.definitions \o geometry.definitions \o equations.definitions
                     \o trigonometry.definitions \o finance.definitions
                     \o combinatorics.definitions \o advanced.definitions
    IN JArr([i \in 1..Len(all_tools) |-> JObj([name |-> JStr(all_tools[i])])])

get_all_tools == TOOL_DEFINITIONS

RECURSIVE execute_tool(_, _)

(***************************************************************************)
(* tools/batch.rs                                                          *)
(***************************************************************************)
BatchOperation(id, tool, arguments) == [id |-> id, tool |-> tool, arguments |-> arguments]

BatchOperationResult(id, success, result, error) ==
    [id |-> id, success |-> success, result |-> result, error |-> error]

\* Serialize for BatchOperationResult: result and error are skipped when
\* None (Some(message) is the string value of the message)
BatchOperationResultToValue(r) ==
    JObj([id |-> JStr(r.id), success |-> JBool(r.success)]
         @@ (IF r.result = None THEN EmptyMap ELSE [result |-> r.result])
         @@ (IF r.error = None THEN EmptyMap ELSE [error |-> r.error]))

\* serde_json::from_value::<BatchOperation>
BatchOperationFromValue(value) ==
    IF value.t # "obj"
    THEN Err(<<"invalid type: ", value.t, ", expected struct BatchOperation">>)
    ELSE IF "id" \in DOMAIN value.v /\ value.v["id"].t # "str"
    THEN Err(<<"invalid type: ", value.v["id"].t, ", expected a string">>)
    ELSE IF "tool" \in DOMAIN value.v /\ value.v["tool"].t # "str"
    THEN Err(<<"invalid type: ", value.v["tool"].t, ", expected a string">>)
    ELSE IF "id" \notin DOMAIN value.v THEN Err(<<"missing field id">>)
    ELSE IF "tool" \notin DOMAIN value.v THEN Err(<<"missing field tool">>)
    ELSE IF "arguments" \notin DOMAIN value.v THEN Err(<<"missing field arguments">>)
    ELSE Ok(BatchOperation(value.v["id"].v, value.v["tool"].v, value.v["arguments"]))

\* serde_json::from_value::<BatchArgs>
BatchArgsFromValue(value) ==
    IF value.t # "obj"
    THEN Err(<<"invalid type: ", value.t, ", expected struct BatchArgs">>)
    ELSE IF "operations" \notin DOMAIN value.v THEN Err(<<"missing field operations">>)
    ELSE IF value.v["operations"].t # "arr"
    THEN Err(<<"invalid type: ", value.v["operations"].t, ", expected a sequence">>)
    ELSE LET items == value.v["operations"].v
             bad == {i \in 1..Len(items) : ~BatchOperationFromValue(items[i]).ok}
         IN IF bad # {}
            THEN BatchOperationFromValue(items[CHOOSE i \in bad : \A j \in bad : i <= j])
            ELSE Ok([operations |-> [i \in 1..Len(items) |-> BatchOperationFromValue(items[i]).val]])

HasDuplicateIds_never(operations) == FALSE

\* batch.rs:95-104: some id was seen before
HasDuplicateIds(operations) ==
    \E i, j \in 1..Len(operations) : i < j /\ operations[i].id = operations[j].id

\* the id of the first operation whose insert into seen_ids fails
FirstDuplicateId(operations) ==
    LET j == CHOOSE j \in 1..Len(operations) :
                 /\ \E i \in 1..(j - 1) : operations[i].id = operations[j].id
                 /\ \A k \in 1..(j - 1) : ~\E i \in 1..(k - 1) : operations[i].id = operations[k].id
    IN operations[j].id

OperationResult_flat(operation) ==
    LET Matched(result) ==
            IF result.ok
            THEN BatchOperationResult(operation.id, TRUE, result.val, None)
            ELSE BatchOperationResult(operation.id, FALSE, None, JStr(result.err.message))
    IN IF operation.tool = TOOL_BATCH
       THEN BatchOperationResult(operation.id, FALSE, None, JStr(<<"Unknown tool: ", TOOL_BATCH>>))
       ELSE Matched(execute_tool(operation.tool, operation.arguments))

\* batch.rs:111-124: one pass of the loop over the operations
OperationResult(operation) ==
    LET Matched(result) ==
            IF result.ok
            THEN BatchOperationResult(operation.id, TRUE, result.val, None)
            ELSE BatchOperationResult(operation.id, FALSE, None, JStr(result.err.message))
    IN Matched(execute_tool(operation.tool, operation.arguments))

ExecuteEach_untilFailure(operations) ==
    LET failed == {i \in 1..Len(operations) : ~OperationResult(operations[i]).success}
        n == IF failed = {} THEN Len(operations) ELSE CHOOSE i \in failed : \A j \in failed : i <= j
    IN [i \in 1..n |-> OperationResult(operations[i])]

\* batch.rs:110-126: every operation is executed, in order
ExecuteEach(operations) ==
    [i \in 1..Len(operations) |-> OperationResult(operations[i])]

Summary_failedIsTotal(results) ==
    JObj([total |-> JNum(Len(results)),
          successful |-> JNum(Cardinality({i \in 1..Len(results) : results[i].success})),
          failed |-> JNum(Len(results))])

\* batch.rs:128-138
Summary(results) ==
    LET successful == Cardinality({i \in 1..Len(results) : results[i].success})
        failed == Len(results) - successful
    IN JObj([total |-> JNum(Len(results)), successful |-> JNum(successful), failed |-> JNum(failed)])

\* batch::execute.  The field executed lists the tools handed to
\* registry.execute_tool by the loop.
batch_execute(tool_name, args) ==
    LET batch_args == BatchArgsFromValue(args) IN
    IF ~batch_args.ok
    THEN Err(McpError(INVALID_PARAMS, <<"Invalid batch arguments: ">> \o batch_args.err))
         @@ [executed |-> <<>>]
    ELSE LET operations == batch_args.val.operations IN
    IF operations = <<>>
    THEN Err(McpError(INVALID_PARAMS, <<"No operations provided">>)) @@ [executed |-> <<>>]
    ELSE IF Len(operations) > MAX_BATCH_SIZE
    THEN Err(McpError(INVALID_PARAMS, <<"Batch size exceeds maximum of ", ToString(MAX_BATCH_SIZE),
                                        " operations">>)) @@ [executed |-> <<>>]
    ELSE IF HasDuplicateIds(operations)
    THEN Err(McpError(INVALID_PARAMS, <<"Duplicate operation ID: ", FirstDuplicateId(operations)>>))
         @@ [executed |-> <<>>]
    ELSE LET Collected(results) ==
                 Ok(JObj([results |-> JArr([i \in 1..Len(results) |->
                                               BatchOperationResultToValue(results[i])]),
                          summary |-> Summary(results)]))
                 @@ [executed |-> [i \in 1..Len(results) |-> operations[i].tool]]
         IN Collected(ExecuteEach(operations))

\* DefaultToolRegistry::execute_tool
execute_tool(name, arguments) ==
    IF name \notin DOMAIN TOOL_REGISTRY
    THEN Err(McpError(TOOL_ERROR, <<"Unknown tool: ", name>>))
    ELSE IF TOOL_REGISTRY[name].module = "batch" THEN batch_execute(name, arguments)
    ELSE IF TOOL_REGISTRY[name].module = "basic_math" THEN basic_math_execute(name, arguments)
    ELSE module_execute(TOOL_REGISTRY[name], name, arguments)

(***************************************************************************)
(* protocol/mod.rs: request and response types, dispatcher, writer         *)
(***************************************************************************)
JsonRpcResponse_noid(id, result, error) ==
    [jsonrpc |-> JSON_RPC_VERSION, id |-> None, result |-> result, error |-> error]

JsonRpcResponse(id, result, error) ==
    [jsonrpc |-> JSON_RPC_VERSION, id |-> id, result |-> result, error |-> error]

\* the { content: [ { type: "text", text } ], isError: true } result value
ErrorContent(text) ==
    JObj([content |-> JArr(<<JObj([type |-> JStr("text"), text |-> JStr(text)])>>),
          isError |-> JBool(TRUE)])

\* serde_json::from_value::<InitializeParams>: the fields are read under
\* their Rust names (the struct has no rename attribute)
InitializeParamsFromValue(value) ==
    IF value.t # "obj"
    THEN Err(<<"invalid type: ", value.t, ", expected struct InitializeParams">>)
    ELSE IF "protocol_version" \in DOMAIN value.v /\ value.v["protocol_version"].t # "str"
    THEN Err(<<"invalid type: ", value.v["protocol_version"].t, ", expected a string">>)
    ELSE IF "protocol_version" \notin DOMAIN value.v
    THEN Err(<<"missing field protocol_version">>)
    ELSE IF "capabilities" \notin DOMAIN value.v
    THEN Err(<<"missing field capabilities">>)
    ELSE IF "client_info" \notin DOMAIN value.v
    THEN Err(<<"missing field client_info">>)
    ELSE Ok([protocol_version |-> value.v["protocol_version"].v,
             capabilities |-> value.v["capabilities"],
             client_info |-> value.v["client_info"]])

\* serde_json::from_value::<ToolCallParams>
ToolCallParamsFromValue(value) ==
    IF value.t # "obj"
    THEN Err(<<"invalid type: ", value.t, ", expected struct ToolCallParams">>)
    ELSE IF "name" \in DOMAIN value.v /\ value.v["name"].t # "str"
    THEN Err(<<"invalid type: ", value.v["name"].t, ", expected a string">>)
    ELSE IF "name" \notin DOMAIN value.v
    THEN Err(<<"missing field name">>)
    ELSE IF "arguments" \notin DOMAIN value.v
    THEN Err(<<"missing field arguments">>)
    ELSE Ok([name |-> value.v["name"].v, arguments |-> value.v["arguments"]])

\* handle_initialize: the id is left None for the caller to set
handle_initialize(params) ==
    Ok(JsonRpcResponse(None,
         JObj([protocol_version |-> JStr(params.protocol_version),
               capabilities |-> JObj([tools |-> JObj(EmptyMap)]),
               server_info |-> JObj([name |-> JStr(DEFAULT_NAME),
                                     version |-> JStr(DEFAULT_VERSION)])]),
         None))

ToolSuccessResponse_neither(id, result) == JsonRpcResponse(id, None, None)

\* mod.rs:238-250: the response for a tool that returned Ok
ToolSuccessResponse(id, result) ==
    JsonRpcResponse(id,
        JObj([content |-> JArr(<<JObj([type |-> JStr("text"),
                                       text |-> [t |-> "json", v |-> result]])>>)]),
        None)

ToolErrorResponse_toplevel(id, e) == JsonRpcResponse(id, None, e)

\* mod.rs:261-274: the response for a tool that returned Err (lookup miss or
\* executor failure)
ToolErrorResponse(id, e) ==
    JsonRpcResponse(id, ErrorContent(<<"Error: ">> \o e.message), None)

MethodNotFoundResponse_toplevel(id, method) ==
    JsonRpcResponse(id, None, McpError(-32601, <<"Method not found: ", method>>))

\* mod.rs:282-295: the response for a method outside the three known ones
MethodNotFoundResponse(id, method) ==
    JsonRpcResponse(id, ErrorContent(<<"Method not found: ", method>>), None)

\* handle_method_with_config.  The field executed lists the tool names handed
\* to registry.execute_tool by the call.
handle_method_with_config(method, params, id) ==
    CASE method = INITIALIZE ->
           IF params = None
           THEN Err(McpError(INVALID_PARAMS, <<"Missing params">>)) @@ [executed |-> <<>>]
           ELSE LET init_params == InitializeParamsFromValue(params) IN
                IF ~init_params.ok
                THEN Err(FromSerdeError(init_params.err)) @@ [executed |-> <<>>]
                ELSE LET response == handle_initialize(init_params.val).val IN
                     Ok([response EXCEPT !.id = id]) @@ [executed |-> <<>>]
      [] method = TOOLS_LIST ->
           Ok(JsonRpcResponse(id, JObj([tools |-> get_all_tools]), None)) @@ [executed |-> <<>>]
      [] method = TOOLS_CALL ->
           IF params = None
           THEN Err(McpError(INVALID_PARAMS, <<"Missing params">>)) @@ [executed |-> <<>>]
           ELSE LET call_params == ToolCallParamsFromValue(params) IN
                IF ~call_params.ok
                THEN Err(FromSerdeError(call_params.err)) @@ [executed |-> <<>>]
                ELSE LET Matched(result) ==
                             IF result.ok
                             THEN Ok(ToolSuccessResponse(id, result.val))
                             ELSE Ok(ToolErrorResponse(id, result.err))
                     IN Matched(execute_tool(call_params.val.name, call_params.val.arguments))
                        @@ [executed |-> <<call_params.val.name>>]
      [] OTHER ->
           Ok(MethodNotFoundResponse(id, method)) @@ [executed |-> <<>>]

\* serde_json::to_string(&response): id is always written (null for None),
\* result and error are skipped when None.  The text is the three pieces
\* "{", members, "}" of the wire alphabet below.
ResponseToString(response) ==
    LET always == [jsonrpc |-> JStr(response.jsonrpc),
                   id |-> IF response.id = None THEN JNull ELSE response.id]
        result == IF response.result = None THEN EmptyMap ELSE [result |-> response.result]
        error == IF response.error = None THEN EmptyMap
                 ELSE [error |-> JObj([code |-> JNum(response.error.code),
                                       message |-> JStr(response.error.message)])]
    IN <<[k |-> "lb"], [k |-> "members", v |-> always @@ result @@ error, pad |-> 0], [k |-> "rb"]>>

(***************************************************************************)
(* The byte stream.  A byte sequence is a sequence of pieces:              *)
(*   cl       the header token "Content-Length:"                           *)
(*   len      " <decimal n>", a header value                              *)
(*   junk     a run of other printable bytes, without white space          *)
(*   nl       a line end                                                   *)
(*   lb, rb   "{" and "}"                                                  *)
(*   members  the members of a JSON object (v: key -> value), followed by  *)
(*            pad bytes of further ignored members                         *)
(*   bad8     a byte that is not valid UTF-8                               *)
(*   ascii    a run of n printable one-byte characters                     *)
(*   mb       one character of two bytes                                   *)
(* A piece is read whole: reads split the stream between pieces only.      *)
(***************************************************************************)
Weight(piece) ==
    CASE piece.k = "members" -> 1 + piece.pad
      [] piece.k = "ascii" -> piece.n
      [] piece.k = "mb" -> 2
      [] OTHER -> 1

RECURSIVE ByteLen(_)
ByteLen(s) == IF s = <<>> THEN 0 ELSE Weight(Head(s)) + ByteLen(Tail(s))

IsWs(piece) == piece.k = "nl"

RECURSIVE TrimStart(_)
TrimStart(s) == IF s # <<>> /\ IsWs(Head(s)) THEN TrimStart(Tail(s)) ELSE s

RECURSIVE TrimEnd(_)
TrimEnd(s) == IF s # <<>> /\ IsWs(s[Len(s)]) THEN TrimEnd(SubSeq(s, 1, Len(s) - 1)) ELSE s

\* str::trim
Trim(s) == TrimEnd(TrimStart(s))

HasBad8(s) == \E i \in 1..Len(s) : s[i].k = "bad8"

\* position of the first line end of s, 0 if there is none
FirstNl(s) == IF \E i \in 1..Len(s) : s[i].k = "nl"
              THEN CHOOSE i \in 1..Len(s) : s[i].k = "nl" /\ \A j \in 1..(i - 1) : s[j].k # "nl"
              ELSE 0

TakeBytes_available(s, n) == Len(s)

\* least number of leading pieces of s that hold n bytes, 0 if s is too short
RECURSIVE TakeBytes(_, _)
TakeBytes(s, n) ==
    IF n <= 0 THEN 0
    ELSE IF s = <<>> THEN 0
    ELSE IF Weight(Head(s)) >= n THEN 1
    ELSE LET r == TakeBytes(Tail(s), n - Weight(Head(s))) IN IF r = 0 THEN 0 ELSE r + 1

(***************************************************************************)
(* serde_json deserialisation of JsonRpcRequest                            *)
(***************************************************************************)
SerdeErr(cat, msg) == [ok |-> FALSE, cat |-> cat, err |-> <<msg>>]

\* Option<Value> field: a missing key and null both give None
OptionField(m, key) == IF key \in DOMAIN m /\ m[key].t # "null" THEN m[key] ELSE None

\* type errors of the members, reported as data errors when they are met
MembersTypeError(m) ==
    \/ "jsonrpc" \in DOMAIN m /\ m["jsonrpc"].t # "str"
    \/ "method" \in DOMAIN m /\ m["method"].t # "str"

\* serde_json::from_slice::<JsonRpcRequest> (and from_str on valid UTF-8)
FromSlice(bytes) ==
    LET s1 == TrimStart(bytes) IN
    IF s1 = <<>> THEN SerdeErr("eof", "EOF while parsing a value")
    ELSE IF s1[1].k = "len" THEN SerdeErr("data", "invalid type: integer, expected struct JsonRpcRequest")
    ELSE IF s1[1].k # "lb" THEN SerdeErr("syntax", "expected value")
    ELSE LET s2 == TrimStart(Tail(s1)) IN
    IF s2 = <<>> THEN SerdeErr("eof", "EOF while parsing an object")
    ELSE IF s2[1].k = "rb" THEN SerdeErr("data", "missing field jsonrpc")
    ELSE IF s2[1].k # "members" THEN SerdeErr("syntax", "key must be a string")
    ELSE LET m == s2[1].v
             s3 == TrimStart(Tail(s2)) IN
    IF MembersTypeError(m) THEN SerdeErr("data", "invalid type, expected a string")
    ELSE IF s3 = <<>> THEN SerdeErr("eof", "EOF while parsing an object")
    ELSE IF s3[1].k # "rb" THEN SerdeErr("syntax", "expected , or }")
    ELSE IF "jsonrpc" \notin DOMAIN m THEN SerdeErr("data", "missing field jsonrpc")
    ELSE IF "method" \notin DOMAIN m THEN SerdeErr("data", "missing field method")
    ELSE IF TrimStart(Tail(s3)) # <<>> THEN SerdeErr("syntax", "trailing characters")
    ELSE Ok([jsonrpc |-> m["jsonrpc"].v, id |-> OptionField(m, "id"),
             method |-> m["method"].v, params |-> OptionField(m, "params")])

validate_anyversion(request) == Ok(TRUE)

\* JsonRpcRequest::validate
validate(request) ==
    IF request.jsonrpc # JSON_RPC_VERSION
    THEN Err(McpError(INVALID_REQUEST, <<"Invalid JSON-RPC version: expected '", JSON_RPC_VERSION,
                                         "', got '", request.jsonrpc, "'">>))
    ELSE Ok(TRUE)

ParseResult(request, uses_content_length) ==
    [request |-> request, uses_content_length |-> uses_content_length]

\* request.validate()?; Ok(ParseResult { .. })
Validated(request, uses_content_length) ==
    IF validate(request).ok THEN Ok(ParseResult(request, uses_content_length)) ELSE validate(request)

(***************************************************************************)
(* protocol/parser.rs: parse_message.  A call that has to wait for input   *)
(* stops at the read; Reading(..) is its position, Returned(..) its end.   *)
(* bytes is what the reader's buffer holds at this point and eof says that *)
(* the stream has ended (fill_buf would yield nothing more).               *)
(***************************************************************************)
Reading(phase, acc, length) ==
    [pc |-> phase, line |-> acc, length |-> length, buf |-> <<>>, res |-> None]
Returned(res, rest) ==
    [pc |-> "detect", line |-> <<>>, length |-> 0, buf |-> rest, res |-> res]

InvalidUtf8 == McpError(PARSE_ERROR, <<"Invalid UTF-8 in message: ", "invalid utf-8 sequence">>)

\* the text of a piece, for messages that quote the input
PieceText(piece) ==
    CASE piece.k = "cl" -> "Content-Length:"
      [] piece.k = "len" -> ToString(piece.n)
      [] piece.k = "lb" -> "{"
      [] piece.k = "rb" -> "}"
      [] piece.k = "nl" -> "\n"
      [] OTHER -> piece.k

\* parser.rs:86-99: read_exact(length), from_utf8, from_str, validate
ReadBody(acc, length, bytes, eof) ==
    LET all == acc \o bytes
        k == TakeBytes(all, length)
        json == SubSeq(all, 1, k)
        rest == SubSeq(all, k + 1, Len(all))
        request == FromSlice(json)
    IN
    IF length > 0 /\ k = 0
    THEN IF eof
         THEN Returned(Err(McpError(INTERNAL_ERROR,
                  <<"Failed to read JSON message: ", "failed to fill whole buffer">>)), <<>>)
         ELSE Reading("body", all, length)
    ELSE IF HasBad8(json) THEN Returned(Err(InvalidUtf8), rest)
    ELSE IF ~request.ok THEN Returned(Err(FromSerdeError(request.err)), rest)
    ELSE Returned(Validated(request.val, TRUE), rest)

\* BufRead::read_line on what the buffer holds: done is FALSE when the line
\* is not ended yet and the reader has to wait for more input
ReadLine(acc, bytes, eof) ==
    LET i == FirstNl(bytes) IN
    IF i > 0
    THEN [done |-> TRUE, text |-> acc \o SubSeq(bytes, 1, i), rest |-> SubSeq(bytes, i + 1, Len(bytes))]
    ELSE [done |-> bytes = <<>> /\ eof, text |-> acc \o bytes, rest |-> <<>>]

\* parser.rs:80-83: read_line(&mut blank_line); the line's content is not looked at
ReadBlank(acc, length, bytes, eof) ==
    LET blank_line == ReadLine(acc, bytes, eof) IN
    IF ~blank_line.done THEN Reading("blank", blank_line.text, length)
    ELSE IF HasBad8(blank_line.text)
    THEN Returned(Err(McpError(INTERNAL_ERROR,
             <<"Failed to read blank line: ", "stream did not contain valid UTF-8">>)), blank_line.rest)
    ELSE ReadBody(<<>>, length, blank_line.rest, eof)

\* parser.rs:59-78: read_line(&mut first_line), the length value, the ceiling.
\* A len or junk piece is a word of its own (it starts with the space).
ReadHeader(acc, bytes, eof) ==
    LET first_line == ReadLine(acc, bytes, eof)
        trimmed == Trim(first_line.text)
    IN
    IF ~first_line.done THEN Reading("header", first_line.text, 0)
    ELSE IF HasBad8(first_line.text)
    THEN Returned(Err(McpError(INTERNAL_ERROR,
             <<"Failed to read header: ", "stream did not contain valid UTF-8">>)), first_line.rest)
    ELSE IF Len(trimmed) < 2 \/ trimmed[2].k \notin {"len", "junk"}
    THEN Returned(Err(McpError(INVALID_REQUEST, <<"Invalid Content-Length header format">>)), first_line.rest)
    ELSE IF trimmed[2].k = "junk"
    THEN Returned(Err(McpError(INVALID_REQUEST,
             <<"Invalid Content-Length value: ", "invalid digit found in string">>)), first_line.rest)
    ELSE IF trimmed[2].n > MAX_CONTENT_LENGTH
    THEN Returned(Err(McpError(RESOURCE_LIMIT,
             <<"Content-Length ", ToString(trimmed[2].n), " exceeds maximum allowed size of ",
               ToString(MAX_CONTENT_LENGTH), " bytes">>)), first_line.rest)
    ELSE ReadBlank(<<>>, trimmed[2].n, first_line.rest, eof)

\* parser.rs:107-162: one round of the loop over fill_buf of the raw JSON
\* branch (the whole buffer is taken), and the code after the loop
ReadRaw(acc, bytes, eof) ==
    LET json_buffer == acc \o bytes
        parsed == FromSlice(json_buffer)
        retry == IF HasBad8(json_buffer) THEN SerdeErr("syntax", "invalid utf-8")
                 ELSE FromSlice(Trim(json_buffer))
        last == FromSlice(Trim(acc))
    IN
    IF bytes = <<>>
    THEN IF ~eof THEN Reading("raw", acc, 0)
         ELSE IF HasBad8(acc) THEN Returned(Err(InvalidUtf8), <<>>)
         ELSE IF ~last.ok THEN Returned(Err(FromSerdeError(last.err)), <<>>)
         ELSE Returned(Validated(last.val, FALSE), <<>>)
    ELSE IF parsed.ok THEN Returned(Validated(parsed.val, FALSE), <<>>)
    ELSE IF parsed.cat \in {"eof", "data"} THEN Reading("raw", json_buffer, 0)
    ELSE IF retry.ok THEN Returned(Validated(retry.val, FALSE), <<>>)
    ELSE Returned(Err(McpError(PARSE_ERROR, <<"JSON parse error: ">> \o parsed.err)), <<>>)

\* the characters of a piece, one string each where the piece is plain text
PieceChars(piece) ==
    IF piece.k = "ascii" THEN [i \in 1..piece.n |-> "a"] ELSE <<PieceText(piece)>>

\* str::is_char_boundary(n) for 0 < n < len: byte n does not fall inside a
\* character of several bytes
RECURSIVE is_char_boundary(_, _)
is_char_boundary(s, n) ==
    IF n <= 0 \/ s = <<>> THEN TRUE
    ELSE IF Weight(Head(s)) <= n THEN is_char_boundary(Tail(s), n - Weight(Head(s)))
    ELSE Head(s).k # "mb"

\* the text of &s[..n], the first n bytes of s (the text of a members piece
\* stands for any part of it)
RECURSIVE SliceTo(_, _)
SliceTo(s, n) ==
    IF n <= 0 \/ s = <<>> THEN <<>>
    ELSE IF Weight(Head(s)) <= n THEN PieceChars(Head(s)) \o SliceTo(Tail(s), n - Weight(Head(s)))
    ELSE IF Head(s).k = "ascii" THEN [i \in 1..n |-> "a"]
    ELSE PieceChars(Head(s))

\* a panic of the main thread: the process ends inside the call
Panicked == [pc |-> "panicked", line |-> <<>>, length |-> 0, buf |-> <<>>, res |-> None]

\* parser.rs:163-174: unknown format, one line is read and its start
\* reported; &trimmed[..50] panics when byte 50 is not a character boundary
ReadUnknown(acc, bytes, eof) ==
    LET first_line == ReadLine(acc, bytes, eof)
        trimmed == Trim(first_line.text)
    IN
    IF ~first_line.done THEN Reading("unknown", first_line.text, 0)
    ELSE IF HasBad8(first_line.text)
    THEN Returned(Err(McpError(INTERNAL_ERROR,
             <<"Failed to read input: ", "stream did not contain valid UTF-8">>)), first_line.rest)
    ELSE IF ByteLen(trimmed) > 50 /\ ~is_char_boundary(trimmed, 50) THEN Panicked
    ELSE Returned(Err(McpError(INVALID_REQUEST,
             <<"Unknown message format, expected Content-Length header or JSON, got: ">>
             \o (IF ByteLen(trimmed) > 50 THEN SliceTo(trimmed, 50) \o <<"...">>
                  ELSE SliceTo(trimmed, ByteLen(trimmed))))), first_line.rest)

\* parser.rs:45-57: the peek that selects the branch
parse_message(bytes, eof) ==
    IF bytes = <<>>
    THEN Returned(Err(McpError(VALIDATION_ERROR, <<"EOF: clean shutdown">>)), <<>>)
    ELSE IF bytes[1].k = "cl" THEN ReadHeader(<<>>, bytes, eof)
    ELSE IF bytes[1].k = "lb" THEN ReadRaw(<<>>, bytes, eof)
    ELSE ReadUnknown(<<>>, bytes, eof)

\* a parse_message call that waited for input goes on from where it stopped
Continue(phase, acc, length, bytes, eof) ==
    CASE phase = "header" -> ReadHeader(acc, bytes, eof)
      [] phase = "blank" -> ReadBlank(acc, length, bytes, eof)
      [] phase = "body" -> ReadBody(acc, length, bytes, eof)
      [] phase = "raw" -> ReadRaw(acc, bytes, eof)
      [] phase = "unknown" -> ReadUnknown(acc, bytes, eof)

(***************************************************************************)
(* protocol/mod.rs: send_response.  It takes the response only: the        *)
(* framing flag that main passes (main.rs:61, main.rs:92) has no parameter *)
(* to arrive in, and the write is the same for every response.             *)
(***************************************************************************)
\* the line end "\r\n" of the written header
CRLF == [k |-> "nl", cr |-> TRUE]

send_response_println(response) ==
    LET json == ResponseToString(response)
    IN <<[k |-> "cl"], [k |-> "len", n |-> ByteLen(json)], CRLF, CRLF>> \o json \o <<[k |-> "nl"]>>

send_response(response) ==
    LET json == ResponseToString(response)
        content_length == ByteLen(json)
    IN <<[k |-> "cl"], [k |-> "len", n |-> content_length], CRLF, CRLF>> \o json

(***************************************************************************)
(* main.rs:42-103: the loop                                                *)
(***************************************************************************)
ContainsEOF(message) ==
    \E i \in 1..Len(message) :
        message[i] \in {"EOF: clean shutdown", "EOF while parsing a value", "EOF while parsing an object"}

IsCleanShutdown_anycode(e) == ContainsEOF(e.message)

\* main.rs:66-71
IsCleanShutdown(e) == e.code = -32001 /\ ContainsEOF(e.message)

\* main.rs:79-92: the response built for a parse_message failure
ParseErrorResponse(e) ==
    JsonRpcResponse(None, ErrorContent(<<"Parse error: ">> \o e.message), None)

\* main.rs:43-102, one match on the result of parse_message: where the loop
\* goes (detect: next iteration, done: break, failed: main returns the Err of
\* the ? operator), what is written to stdout, and the dispatcher call made
MainMatch(res) ==
    IF res.ok
    THEN LET request == res.val.request
             Handled(response) ==
                 [pc |-> IF response.ok THEN "detect" ELSE "failed",
                  written |-> IF response.ok THEN <<send_response(response.val)>> ELSE <<>>,
                  call |-> [method |-> request.method, params |-> request.params, id |-> request.id],
                  ret |-> response]
         IN Handled(handle_method_with_config(request.method, request.params, request.id))
    ELSE IF IsCleanShutdown(res.err)
    THEN [pc |-> "done", written |-> <<>>, call |-> None, ret |-> None]
    ELSE [pc |-> "detect", written |-> <<send_response(ParseErrorResponse(res.err))>>,
          call |-> None, ret |-> None]

\* the state after parse_message has gone as far as the input allows: p is
\* its position or result, taken is the number of pieces the reader had
Advance(p, taken, before) ==
    /\ buf' = p.buf
    /\ line' = p.line
    /\ body_len' = p.length
    /\ nread' = before + taken - Len(p.buf)
    /\ IF p.res = None
       THEN /\ pc' = p.pc
            /\ UNCHANGED <<pres, out, hist, call, ret>>
       ELSE LET Matched(m) ==
                    /\ pc' = m.pc
                    /\ pres' = p.res
                    /\ out' = out \o m.written
                    /\ call' = IF m.call = None THEN call ELSE m.call
                    /\ ret' = IF m.call = None THEN ret ELSE m.ret
                    /\ hist' = Append(hist, [res |-> p.res, consumed |-> nread', next |-> m.pc,
                                             written |-> Len(m.written), at |-> Len(out')])
            IN Matched(MainMatch(p.res))

\* BufReader::fill_buf: the buffer if it holds bytes, else one read of stdin,
\* which takes what the pipe holds; an empty result is the end of the stream
CanFill == buf # <<>> \/ stdin # <<>> \/ closed
Filled == IF buf # <<>> THEN buf ELSE stdin
AtEof == buf = <<>> /\ stdin = <<>> /\ closed

\* a loop iteration from its start (main.rs:43)
Iterate ==
    /\ pc = "detect"
    /\ CanFill
    /\ stdin' = IF buf # <<>> THEN stdin ELSE <<>>
    /\ Advance(parse_message(Filled, AtEof), Len(Filled), 0)
    /\ UNCHANGED <<closed, pending, sent>>
    /\ UNCHANGED limiterVars

\* a parse_message call that waited in a read gets input, or the end of it
Resume ==
    /\ pc \in {"header", "blank", "body", "raw", "unknown"}
    /\ CanFill
    /\ stdin' = IF buf # <<>> THEN stdin ELSE <<>>
    /\ Advance(Continue(pc, line, body_len, Filled, AtEof), Len(Filled), nread)
    /\ UNCHANGED <<closed, pending, sent>>
    /\ UNCHANGED limiterVars

CallParams(name, arguments) == JObj([name |-> name, arguments |-> arguments])

(***************************************************************************)
(* utils/rate_limiter.rs.  The f64 token counts are exact fractions: the   *)
(* field tokens counts units of 1/refill_interval token, so that a token   *)
(* is refill_interval units and one tick of the clock adds max_tokens      *)
(* units (refill_rate = max_tokens / refill_interval tokens per tick).     *)
(***************************************************************************)
NThreads == 2
MaxTokens == 2
MaxInterval == 2
MaxTime == 2

Threads == 1..NThreads

\* 1.0, in units
OneToken(state) == state.refill_rate.den

\* RateLimiter::new
RateLimiterNew(max_tokens, refill_interval, now) ==
    [tokens |-> max_tokens * refill_interval,
     max_tokens |-> max_tokens * refill_interval,
     refill_rate |-> [num |-> max_tokens, den |-> refill_interval],
     last_refill |-> now]

Idle == [pc |-> "idle", op |-> "none", now |-> 0, refilled |-> 0, admit |-> FALSE]

MutexFree_always == TRUE

\* self.state.lock(): the mutex is free
MutexFree == mutex = 0

Refilled_never(state, now) == state.tokens

Refilled_uncapped(state, now) ==
    state.tokens + (now - state.last_refill) * state.refill_rate.num

\* rate_limiter.rs:85-88: (tokens + elapsed * refill_rate).min(max_tokens)
Refilled(state, now) ==
    LET elapsed == now - state.last_refill
        tokens_to_add == elapsed * state.refill_rate.num
    IN IF state.tokens + tokens_to_add < state.max_tokens
       THEN state.tokens + tokens_to_add ELSE state.max_tokens

HasToken_always(state) == TRUE

\* rate_limiter.rs:92: state.tokens >= 1.0
HasToken(state) == state.tokens >= OneToken(state)

\* check_rate_limit calls started so far, and how many are followed: two
\* more than the capacity of the limiter
Started == Len(log) + Cardinality({t \in Threads : threads[t].op = "check"})
CallLimit == limiter.max_tokens \div OneToken(limiter) + 2

\* rate_limiter.rs:77-81 and 104-107: a thread enters check_rate_limit or
\* available_tokens and takes the lock
Lock(t, op) ==
    /\ limiter # None
    /\ threads[t].pc = "idle"
    /\ op = "check" => Started < CallLimit
    /\ MutexFree
    /\ mutex' = t
    /\ threads' = [threads EXCEPT ![t] = [Idle EXCEPT !.pc = "locked", !.op = op]]
    /\ UNCHANGED <<limiter, clock, log>>
    /\ UNCHANGED serverVars

\* rate_limiter.rs:84-89 and 110-115: the refill from the elapsed time
Refill(t) ==
    /\ threads[t].pc = "locked"
    /\ limiter' = [limiter EXCEPT !.tokens = Refilled(limiter, clock), !.last_refill = clock]
    /\ threads' = [threads EXCEPT ![t].pc = "refilled", ![t].now = clock,
                                  ![t].refilled = Refilled(limiter, clock)]
    /\ UNCHANGED <<clock, mutex, log>>
    /\ UNCHANGED serverVars

\* rate_limiter.rs:92: the test
Test(t) ==
    /\ threads[t].pc = "refilled" /\ threads[t].op = "check"
    /\ threads' = [threads EXCEPT ![t].pc = "tested", ![t].admit = HasToken(limiter)]
    /\ UNCHANGED <<limiter, clock, mutex, log>>
    /\ UNCHANGED serverVars

Finished(t, result, after) ==
    [thread |-> t, time |-> threads[t].now, result |-> result,
     refilled |-> threads[t].refilled, after |-> after]

\* rate_limiter.rs:93-97: the decrement, the return value, the guard dropped
Return(t) ==
    /\ threads[t].pc = "tested"
    /\ limiter' = IF threads[t].admit
                  THEN [limiter EXCEPT !.tokens = @ - OneToken(limiter)] ELSE limiter
    /\ mutex' = 0
    /\ log' = Append(log, Finished(t, threads[t].admit, limiter'.tokens))
    /\ threads' = [threads EXCEPT ![t] = Idle]
    /\ UNCHANGED clock
    /\ UNCHANGED serverVars

\* rate_limiter.rs:117-118: available_tokens returns state.tokens
AvailableReturn(t) ==
    /\ threads[t].pc = "refilled" /\ threads[t].op = "available"
    /\ mutex' = 0
    /\ threads' = [threads EXCEPT ![t] = Idle]
    /\ UNCHANGED <<limiter, clock, log>>
    /\ UNCHANGED serverVars

\* wall-clock time passes
Tick ==
    /\ limiter # None
    /\ clock < MaxTime
    /\ clock' = clock + 1
    /\ UNCHANGED <<limiter, mutex, threads, log>>
    /\ UNCHANGED serverVars

(***************************************************************************)
(* The client at the other end of the pipe.  It writes up to MaxMsgs       *)
(* messages, one piece per write, and may close the stream at any time     *)
(* (a message cut short by the close is lost with it).                     *)
(***************************************************************************)
MaxMsgs == 2

Members(id, method, version, params) ==
    [jsonrpc |-> JStr(version), method |-> JStr(method)]
    @@ (IF id = None THEN EmptyMap ELSE [id |-> id])
    @@ (IF params = None THEN EmptyMap ELSE [params |-> params])

\* the requests of the messages; the id tells the messages apart
ListTools(k) == Members(JNum(k), TOOLS_LIST, "2.0", None)
DivideByZero(k) ==
    Members(JStr(ToString(k)), TOOLS_CALL, "2.0",
            CallParams(JStr("divide"), JObj([a |-> JNum(10), b |-> JNum(0)])))
CallNoParams(k) == Members(JNum(k), TOOLS_CALL, "2.0", None)
BadVersion(k) == Members(JNum(k), TOOLS_LIST, "1.0", None)

Object(m, pad) == <<[k |-> "lb"], [k |-> "members", v |-> m, pad |-> pad], [k |-> "rb"]>>

LengthPrefixed(body, n) == <<[k |-> "cl"], [k |-> "len", n |-> n], [k |-> "nl"], [k |-> "nl"]>> \o body

\* the bytes of a message
Bytes(msg) ==
    CASE msg.kind = "lp" -> LengthPrefixed(Object(msg.m, 0), ByteLen(Object(msg.m, 0)))
      [] msg.kind = "raw" -> Object(msg.m, 0)
      [] msg.kind = "rawnl" -> Object(msg.m, 0) \o <<[k |-> "nl"]>>
      [] msg.kind = "big" -> LengthPrefixed(Object(msg.m, MAX_CONTENT_LENGTH - 2), MAX_CONTENT_LENGTH + 1)
      [] msg.kind = "badheader" -> <<[k |-> "cl"], [k |-> "junk"], [k |-> "nl"]>>
      [] msg.kind = "garbage" -> <<[k |-> "junk"], [k |-> "nl"]>>
      [] msg.kind = "lpbad8" -> LengthPrefixed(<<[k |-> "bad8"]>>, 1)
      [] msg.kind = "rawsyntax" -> <<[k |-> "lb"], [k |-> "junk"], [k |-> "rb"], [k |-> "nl"]>>
      [] msg.kind = "nlraw" -> <<[k |-> "nl"]>> \o Object(msg.m, 0)
      [] msg.kind = "rawbig" -> Object(msg.m, MAX_CONTENT_LENGTH)
      [] msg.kind = "lplp" -> LengthPrefixed(Object(msg.m, 0), ByteLen(Object(msg.m, 0)))
                              \o LengthPrefixed(Object(msg.m, 0), ByteLen(Object(msg.m, 0)))
      [] msg.kind = "lpshort" -> LengthPrefixed(Object(msg.m, 0), ByteLen(Object(msg.m, 0)) + 1)
      [] msg.kind = "line49mb" -> <<[k |-> "ascii", n |-> 49], [k |-> "mb"], [k |-> "nl"]>>
      [] msg.kind = "line50mb" -> <<[k |-> "ascii", n |-> 50], [k |-> "mb"], [k |-> "nl"]>>
      [] msg.kind = "line60" -> <<[k |-> "ascii", n |-> 60], [k |-> "nl"]>>
      [] msg.kind = "linebad8" -> <<[k |-> "junk"], [k |-> "bad8"], [k |-> "nl"]>>

\* what the k-th message can be
Messages(k) ==
    { [kind |-> "lp", m |-> ListTools(k)],
      [kind |-> "lp", m |-> CallNoParams(k)],
      [kind |-> "lp", m |-> BadVersion(k)],
      [kind |-> "raw", m |-> DivideByZero(k)],
      [kind |-> "rawnl", m |-> ListTools(k)],
      [kind |-> "big", m |-> ListTools(k)],
      [kind |-> "badheader", m |-> EmptyMap],
      [kind |-> "garbage", m |-> EmptyMap],
      [kind |-> "lpbad8", m |-> EmptyMap],
      [kind |-> "rawsyntax", m |-> EmptyMap] }

ClientBegin(msg) ==
    /\ ~closed /\ pending = <<>> /\ Len(sent) < MaxMsgs
    /\ pending' = Bytes(msg)
    /\ sent' = Append(sent, msg @@ [cut |-> FALSE])
    /\ UNCHANGED <<stdin, closed, buf, body_len, pc, line, nread, pres, out, hist, call, ret>>
    /\ UNCHANGED limiterVars

ClientWrite ==
    /\ ~closed /\ pending # <<>>
    /\ stdin' = Append(stdin, Head(pending))
    /\ pending' = Tail(pending)
    /\ UNCHANGED <<closed, sent, buf, body_len, pc, line, nread, pres, out, hist, call, ret>>
    /\ UNCHANGED limiterVars

ClientClose ==
    /\ ~closed
    /\ closed' = TRUE
    /\ pending' = <<>>
    /\ sent' = IF pending = <<>> THEN sent ELSE [sent EXCEPT ![Len(sent)].cut = TRUE]
    /\ UNCHANGED <<stdin, buf, body_len, pc, line, nread, pres, out, hist, call, ret>>
    /\ UNCHANGED limiterVars

\* main.rs:13-40: the server before its first read
ServerInit ==
    /\ stdin = <<>> /\ closed = FALSE /\ pending = <<>> /\ sent = <<>>
    /\ buf = <<>> /\ body_len = 0 /\ pc = "detect" /\ line = <<>> /\ nread = 0
    /\ pres = None /\ out = <<>> /\ hist = <<>>
    /\ call = None /\ ret = None

\* no thread is inside a method of the limiter
LimiterIdle ==
    /\ clock = 0 /\ mutex = 0 /\ log = <<>>
    /\ threads = [t \in Threads |-> Idle]

\* main creates no RateLimiter
Init == ServerInit /\ LimiterIdle /\ limiter = None

Next ==
    \/ \E msg \in Messages(Len(sent) + 1) : ClientBegin(msg)
    \/ ClientWrite
    \/ ClientClose
    \/ Iterate
    \/ Resume

Spec == Init /\ [][Next]_vars

(***************************************************************************)
(* The reader and the loop on requests of either framing with a good or a  *)
(* bad protocol version: the same client, reader and loop as above, on up  *)
(* to MaxReaderMsgs messages of the menu below.                            *)
(***************************************************************************)
MaxReaderMsgs == 1

BadVersionCall(k) ==
    Members(JNum(k), TOOLS_CALL, "1.0",
            CallParams(JStr("add"), JObj([numbers |-> JArr(<<JNum(1), JNum(2)>>)])))
EmptyVersion(k) == Members(JStr(ToString(k)), TOOLS_LIST, "", None)

\* a complete JSON object that is no request: it has no method
NoMethod(k) == [jsonrpc |-> JStr("2.0"), id |-> JNum(k)]

ReaderMessages(k) ==
    { [kind |-> f, m |-> m] :
        f \in {"lp", "raw", "rawnl"},
        m \in {ListTools(k), BadVersion(k), BadVersionCall(k), EmptyVersion(k)} }
    \cup { [kind |-> "raw", m |-> NoMethod(k)] }
    \cup { [kind |-> f, m |-> ListTools(k)] :
             f \in {"rawsyntax", "nlraw", "rawbig", "lplp", "lpshort", "garbage",
                    "line49mb", "line50mb", "line60", "linebad8"} }

ReaderBegin(msg) ==
    /\ ~closed /\ pending = <<>> /\ Len(sent) < MaxReaderMsgs
    /\ pending' = Bytes(msg)
    /\ sent' = Append(sent, msg @@ [cut |-> FALSE])
    /\ UNCHANGED <<stdin, closed, buf, body_len, pc, line, nread, pres, out, hist, call, ret>>
    /\ UNCHANGED limiterVars

ReaderNext ==
    \/ \E msg \in ReaderMessages(Len(sent) + 1) : ReaderBegin(msg)
    \/ ClientWrite
    \/ ClientClose
    \/ Iterate
    \/ Resume

ReaderSpec == Init /\ [][ReaderNext]_vars

(***************************************************************************)
(* The batch tool alone: one call of batch_operations through the registry *)
(* on any arguments of the set below (the tool keeps no state, so a        *)
(* behaviour is one call).                                                 *)
(***************************************************************************)
MaxOps == 3

OperationValue(id, tool, arguments) ==
    JObj([id |-> JStr(id), tool |-> JStr(tool), arguments |-> arguments])

\* the operations of the small batches: (tool, arguments)
OperationKinds ==
    { <<"add", JObj([numbers |-> JArr(<<JNum(1), JNum(2)>>)])>>,
      <<"divide", JObj([a |-> JNum(10), b |-> JNum(0)])>>,
      <<"nonexistent_tool", JObj(EmptyMap)>>,
      <<TOOL_BATCH, JObj([operations |->
            JArr(<<OperationValue("n", "multiply", JObj([numbers |-> JArr(<<JNum(2), JNum(3)>>)]))>>)])>> }

OperationValues ==
    { OperationValue(id, kind[1], kind[2]) : id \in {"a", "b", "c"}, kind \in OperationKinds }

\* n operations with the ids "1" .. "n"; every third one divides by zero
ManyOperations(n) ==
    [i \in 1..n |->
        IF i % 3 = 0
        THEN OperationValue(ToString(i), "divide", JObj([a |-> JNum(i), b |-> JNum(0)]))
        ELSE OperationValue(ToString(i), "add", JObj([numbers |-> JArr(<<JNum(i), JNum(1)>>)]))]

\* batches with a batch_operations operation whose own operations are none,
\* too many, two of one id, as many as allowed, or a batch again
NestedBatches ==
    LET add == OperationValue("b", "add", JObj([numbers |-> JArr(<<JNum(1), JNum(2)>>)]))
        Nested(id, ops) == OperationValue(id, TOOL_BATCH, JObj([operations |-> JArr(ops)]))
    IN { <<Nested("a", <<>>), add>>,
         <<add, Nested("a", ManyOperations(MAX_BATCH_SIZE + 1))>>,
         <<Nested("a", <<add, add>>), add>>,
         <<Nested("a", ManyOperations(MAX_BATCH_SIZE)), add>>,
         <<Nested("a", <<Nested("b", <<add>>), Nested("c", <<>>)>>), add>>,
         <<Nested("b", <<add>>), add>> }

\* the arguments of the calls: every batch of up to max of these operations,
\* batches around the size limit, and arguments of another shape
BatchArguments(max) ==
    { JObj([operations |-> JArr(ops)]) :
        ops \in UNION { [1..n -> OperationValues] : n \in 0..max } }
    \cup { JObj([operations |-> JArr(ManyOperations(n))]) :
             n \in {MAX_BATCH_SIZE - 1, MAX_BATCH_SIZE, MAX_BATCH_SIZE + 1} }
    \cup { JObj([operations |-> JArr(ops)]) : ops \in NestedBatches }
    \cup { JObj([operations |-> JArr([ManyOperations(MAX_BATCH_SIZE) EXCEPT ![MAX_BATCH_SIZE] =
                                         ManyOperations(MAX_BATCH_SIZE)[7]])]),
           JObj([operations |-> JArr(ManyOperations(MAX_BATCH_SIZE) \o ManyOperations(1))]),
           JObj(EmptyMap),
           JStr("x"),
           JObj([operations |-> JStr("x")]),
           JObj([operations |-> JArr(<<JObj([id |-> JStr("a"), tool |-> JStr("add")])>>)]),
           JObj([operations |-> JArr(<<JObj([id |-> JNum(1), tool |-> JStr("add"),
                                              arguments |-> JObj(EmptyMap)])>>)]) }

BatchExecute(args) ==
    /\ call = None
    /\ call' = [tool |-> TOOL_BATCH, arguments |-> args]
    /\ ret' = execute_tool(TOOL_BATCH, args)
    /\ UNCHANGED <<stdin, closed, pending, sent, buf, body_len, pc, line, nread, pres, out, hist>>
    /\ UNCHANGED limiterVars

BatchNext == \E args \in BatchArguments(MaxOps) : BatchExecute(args)

BatchSpec == Init /\ [][BatchNext]_vars

(***************************************************************************)
(* The rate limiter alone: one RateLimiter of any capacity and refill      *)
(* interval, shared by the threads through its clones.                     *)
(***************************************************************************)
RateLimitInit ==
    /\ ServerInit /\ LimiterIdle
    /\ limiter \in { RateLimiterNew(max_tokens, refill_interval, 0) :
                        max_tokens \in 0..MaxTokens, refill_interval \in 1..MaxInterval }

RateLimitNext ==
    \/ \E t \in Threads : Lock(t, "check")
    \/ \E t \in Threads : Lock(t, "available")
    \/ \E t \in Threads : Refill(t)
    \/ \E t \in Threads : Test(t)
    \/ \E t \in Threads : Return(t)
    \/ \E t \in Threads : AvailableReturn(t)
    \/ Tick

RateLimitSpec == RateLimitInit /\ [][RateLimitNext]_vars

(***************************************************************************)
(* The dispatcher alone: one call of handle_method_with_config on any      *)
(* request of the sets below (the requests a parsed message can carry).    *)
(***************************************************************************)
Methods == {INITIALIZE, TOOLS_LIST, TOOLS_CALL, "unknown/method", "ping"}

Ids == {None, JNum(0), JNum(7), JStr("7")}

ParamValues ==
    { None,
      JObj(EmptyMap),
      JStr("x"),
      JObj([protocol_version |-> JStr("2025-06-18"), capabilities |-> JObj(EmptyMap),
            client_info |-> JObj([name |-> JStr("test")])]),
      JObj([protocolVersion |-> JStr("2025-06-18"), capabilities |-> JObj(EmptyMap),
            clientInfo |-> JObj([name |-> JStr("test")])]),
      JObj([protocol_version |-> JNum(1), capabilities |-> JObj(EmptyMap),
            client_info |-> JObj(EmptyMap)]),
      CallParams(JStr("add"), JObj([numbers |-> JArr(<<JNum(1), JNum(2), JNum(3)>>)])),
      CallParams(JStr("add"), JObj([numbers |-> JArr(<<JNum(1), JStr("two")>>)])),
      CallParams(JStr("divide"), JObj([a |-> JNum(6), b |-> JNum(3)])),
      CallParams(JStr("divide"), JObj([a |-> JNum(1), b |-> JNum(2)])),
      CallParams(JStr("divide"), JObj([a |-> JNum(10), b |-> JNum(0)])),
      CallParams(JStr("modulo"), JObj([a |-> JNum(5)])),
      CallParams(JStr("nonexistent_tool"), JObj(EmptyMap)),
      CallParams(JNum(5), JObj(EmptyMap)),
      JObj([name |-> JStr("divide")]),
      JObj([arguments |-> JObj([a |-> JNum(1), b |-> JNum(1)])]) }
    \cup { CallParams(get_all_tools.v[i].v["name"], JObj([a |-> JNum(1), b |-> JNum(1)])) :
             i \in 1..Len(get_all_tools.v) }

Dispatch(method, params, id) ==
    /\ call' = [method |-> method, params |-> params, id |-> id]
    /\ ret' = handle_method_with_config(method, params, id)
    /\ UNCHANGED <<stdin, closed, pending, sent, buf, body_len, pc, line, nread, pres, out, hist>>
    /\ UNCHANGED limiterVars

DispatchInit == Init

DispatchNext == \E method \in Methods, params \in ParamValues, id \in Ids : Dispatch(method, params, id)

DispatchSpec == DispatchInit /\ [][DispatchNext]_vars

(***************************************************************************)
(* One process serving requests one after the other: up to MaxSession      *)
(* calls of the dispatcher, each on any of the requests below, with the    *)
(* calls made so far and their responses kept in hist.                     *)
(***************************************************************************)
MaxSession == 3

SessionRequests ==
    { [method |-> INITIALIZE,
       params |-> JObj([protocol_version |-> JStr("2025-06-18"), capabilities |-> JObj(EmptyMap),
                        client_info |-> JObj([name |-> JStr("test")])])],
      [method |-> TOOLS_LIST, params |-> None],
      [method |-> TOOLS_CALL,
       params |-> CallParams(JStr("add"), JObj([numbers |-> JArr(<<JNum(1), JNum(2), JNum(3)>>)]))],
      [method |-> TOOLS_CALL,
       params |-> CallParams(JStr("divide"), JObj([a |-> JNum(10), b |-> JNum(0)]))],
      [method |-> TOOLS_CALL, params |-> CallParams(JStr("nonexistent_tool"), JObj(EmptyMap))],
      [method |-> "ping", params |-> None] }

SessionResponse_afterInitialize(earlier, method, params, id) ==
    IF method = INITIALIZE \/ \E i \in 1..Len(earlier) : earlier[i].call.method = INITIALIZE
    THEN handle_method_with_config(method, params, id)
    ELSE Ok(JsonRpcResponse(id, ErrorContent(<<"Server not initialized">>), None)) @@ [executed |-> <<>>]

\* main.rs:51: the call of the dispatcher in a process that has served the
\* earlier calls.  Its arguments are those of the request and the Config
\* made before the loop; TOOL_REGISTRY and TOOL_DEFINITIONS are immutable
\* statics, and no function on the path writes a static or a field.
SessionResponse(earlier, method, params, id) ==
    handle_method_with_config(method, params, id)

SessionDispatch(request) ==
    /\ Len(hist) < MaxSession
    /\ call' = [method |-> request.method, params |-> request.params, id |-> JNum(Len(hist) + 1)]
    /\ ret' = SessionResponse(hist, request.method, request.params, JNum(Len(hist) + 1))
    /\ hist' = Append(hist, [call |-> call', ret |-> ret'])
    /\ UNCHANGED <<stdin, closed, pending, sent, buf, body_len, pc, line, nread, pres, out>>
    /\ UNCHANGED limiterVars

SessionNext == \E request \in SessionRequests : SessionDispatch(request)

SessionSpec == Init /\ [][SessionNext]_vars

(***************************************************************************)
(* Properties                                                              *)
(***************************************************************************)
\* the JSON members of a message written to stdout
WrittenMembers(w) == w[CHOOSE i \in 1..Len(w) : w[i].k = "members"].v

\* a written message has the header, the blank line and a body of the
\* declared length / is the bare body
IsLengthPrefixed(w) ==
    /\ Len(w) >= 4 /\ w[1].k = "cl" /\ w[2].k = "len" /\ w[3].k = "nl" /\ w[4].k = "nl"
    /\ w[2].n = ByteLen(SubSeq(w, 5, Len(w)))
IsBareJson(w) == Len(w) >= 1 /\ w[1].k = "lb" /\ \A i \in 1..Len(w) : w[i].k \notin {"cl", "len"}

\* the iterations of the loop in which parse_message returned a request
Answered == { i \in 1..Len(hist) : hist[i].res.ok }

\* C1: every request that parse_message returns is answered in the framing
\* it was read in: header, blank line and body for a Content-Length request,
\* the bare JSON body for a raw JSON request.
C1_FramingEchoed ==
    \A i \in Answered :
        hist[i].written = 1 =>
            IF hist[i].res.val.uses_content_length
            THEN IsLengthPrefixed(out[hist[i].at])
            ELSE IsBareJson(out[hist[i].at])

\* C2: a response returned by handle_method_with_config carries the id of the
\* request, with its JSON type (None for a request without id).
C2_IdEchoed ==
    (call # None /\ ret.ok) => ret.val.id = call.id

C2_Witness ==
    call # None /\ ret.ok /\ call.method = INITIALIZE /\ call.id = JStr("7")

\* C3: the loop ends only on end-of-stream with nothing pending; after any
\* other outcome of an iteration the process goes on to the next message.
C3_EndsOnlyAtEof ==
    /\ pc # "failed"
    /\ \A i \in 1..Len(hist) :
           hist[i].next # "detect" =>
               /\ hist[i].consumed = 0
               /\ ~hist[i].res.ok /\ IsCleanShutdown(hist[i].res.err)

\* C4: at the start of an iteration, an ended stream with no byte left ends
\* the loop cleanly, without a response; no other input does.
C4_CleanShutdown ==
    [][ /\ (pc = "detect" /\ AtEof) => (pc' = "done" /\ out' = out)
        /\ pc' = "done" => (pc = "detect" /\ AtEof /\ out' = out)
        /\ (pres' # pres /\ ~pres'.ok /\ pres'.err.code = -32001 /\ ContainsEOF(pres'.err.message))
               => (pc = "detect" /\ AtEof) ]_vars

C4_Witness == pc = "done" /\ Len(out) >= 1 /\ Len(hist) >= 2

\* the messages that are complete, well-formed requests
WellFormed(msg) ==
    /\ ~msg.cut
    /\ msg.kind \in {"lp", "raw", "rawnl"}
    /\ msg.m["jsonrpc"] = JStr(JSON_RPC_VERSION)
    /\ msg.m["method"] = JStr(TOOLS_LIST) \/ "params" \in DOMAIN msg.m

\* what the dispatcher answers to the request of a message
Expected(msg) ==
    handle_method_with_config(msg.m["method"].v, OptionField(msg.m, "params"), OptionField(msg.m, "id")).val

\* C5: for a sequence of well-formed requests there is one response per
\* request, in the order of the requests, the i-th with the id of the i-th
\* request, and none before its request.
C5_OneResponseEachInOrder ==
    (\A i \in 1..Len(sent) : WellFormed(sent[i])) =>
        /\ Len(out) <= Len(sent)
        /\ \A i \in 1..Len(out) :
               WrittenMembers(out[i])["id"] = WrittenMembers(send_response(Expected(sent[i])))["id"]
        /\ pc = "done" => Len(out) = Len(sent)

\* C6: when the reader's buffer holds two complete requests back to back,
\* parse_message returns the first and leaves the bytes of the second.
C6_LeavesNextMessage ==
    [][ \A i \in 1..(Len(sent) - 1) :
          (/\ pc = "detect" /\ UNCHANGED <<closed, pending, sent>>
           /\ WellFormed(sent[i]) /\ WellFormed(sent[i + 1])
           /\ Filled = Bytes(sent[i]) \o Bytes(sent[i + 1]))
          => (/\ pres' # None /\ pres'.ok
              /\ pres'.val.request.id = OptionField(sent[i].m, "id")
              /\ buf' = Bytes(sent[i + 1])) ]_vars

\* C7: a declared Content-Length above the ceiling fails with the resource
\* limit error with only the header line read, and a well-formed request that
\* follows the oversized message is parsed and answered.
C7_ContinuesAfterOversized ==
    /\ \A i \in 1..Len(hist) :
           (~hist[i].res.ok /\ hist[i].res.err.code = RESOURCE_LIMIT) =>
               (hist[i].consumed <= 3 /\ hist[i].next = "detect")
    /\ \A i \in 1..(Len(sent) - 1) :
           (pc = "done" /\ sent[i].kind = "big" /\ ~sent[i].cut /\ WellFormed(sent[i + 1])) =>
               \E j \in 1..Len(out) : WrittenMembers(out[j]) = WrittenMembers(send_response(Expected(sent[i + 1])))

\* C8: a tools/call with well-formed params whose tool is unknown or fails is
\* answered with result { content: [ { type: text, text } ], isError: true }
\* and no top-level error.
C8_DomainErrorsInResult ==
    (/\ call # None /\ call.method = TOOLS_CALL /\ call.params # None
     /\ ToolCallParamsFromValue(call.params).ok
     /\ LET p == ToolCallParamsFromValue(call.params).val IN ~execute_tool(p.name, p.arguments).ok)
    => /\ ret.ok
       /\ ret.val.error = None
       /\ ret.val.result.t = "obj"
       /\ DOMAIN ret.val.result.v = {"content", "isError"}
       /\ ret.val.result.v["isError"] = JBool(TRUE)
       /\ ret.val.result.v["content"].t = "arr"
       /\ Len(ret.val.result.v["content"].v) = 1
       /\ LET item == ret.val.result.v["content"].v[1] IN
          /\ item.v["type"] = JStr("text")
          /\ item.v["text"].t = "str"
          /\ Head(item.v["text"].v) = "Error: "

C8_Witness ==
    /\ call # None /\ call.method = TOOLS_CALL /\ ret.ok
    /\ call.params = CallParams(JStr("divide"), JObj([a |-> JNum(10), b |-> JNum(0)]))
    /\ ret.val.result.v["content"].v[1].v["text"].v = <<"Error: ", "Division by zero">>

\* C9: a method other than initialize, tools/list and tools/call is answered
\* with isError true, the text "Method not found: <method>", the id of the
\* request and no top-level error, and no tool is executed.
C9_UnknownMethodInResult ==
    (call # None /\ call.method \notin {INITIALIZE, TOOLS_LIST, TOOLS_CALL}) =>
        /\ ret.ok
        /\ ret.val.id = call.id
        /\ ret.val.error = None
        /\ ret.val.result = ErrorContent(<<"Method not found: ", call.method>>)
        /\ ret.val.result.v["isError"] = JBool(TRUE)
        /\ ret.executed = <<>>

C9_Witness ==
    call # None /\ call.method = "unknown/method" /\ call.id = JNum(7) /\ ret.ok

\* C10: initialize or tools/call with missing or ill-shaped params is
\* answered with a top-level error of code -32602, no result and the id of
\* the request, and the loop continues.
C10_InvalidParamsAnswered ==
    \A i \in Answered :
        LET request == hist[i].res.val.request IN
        (/\ request.method \in {INITIALIZE, TOOLS_CALL}
         /\ \/ request.params = None
            \/ request.method = TOOLS_CALL /\ ~ToolCallParamsFromValue(request.params).ok
            \/ request.method = INITIALIZE /\ ~InitializeParamsFromValue(request.params).ok)
        => /\ hist[i].next = "detect"
           /\ hist[i].written = 1
           /\ LET m == WrittenMembers(out[hist[i].at]) IN
              /\ "error" \in DOMAIN m /\ m["error"].v["code"] = JNum(INVALID_PARAMS)
              /\ "result" \notin DOMAIN m
              /\ m["id"] = (IF request.id = None THEN JNull ELSE request.id)

\* C11: a response returned by the dispatcher (the only responses written for
\* a parsed request) has exactly one of result and error, in the struct and
\* in the members that are written.
C11_ResultXorError ==
    (call # None /\ ret.ok) =>
        /\ (ret.val.result = None) # (ret.val.error = None)
        /\ LET m == WrittenMembers(send_response(ret.val)) IN
           ("result" \in DOMAIN m) # ("error" \in DOMAIN m)

C11_Witness ==
    /\ call # None /\ ret.ok /\ call.method = TOOLS_CALL
    /\ call.params = CallParams(JStr("add"), JObj([numbers |-> JArr(<<JNum(1), JNum(2), JNum(3)>>)]))
    /\ ret.val.result # None /\ ret.val.error = None

\* a complete request of a known framing whose jsonrpc is a string other
\* than "2.0"
BadVersionRequest(msg) ==
    /\ ~msg.cut
    /\ msg.kind \in {"lp", "raw", "rawnl"}
    /\ msg.m["jsonrpc"].t = "str" /\ msg.m["jsonrpc"].v # JSON_RPC_VERSION

\* the parse_message call read the bytes of the message and no byte of
\* another one (the line end after a raw JSON object may be left behind)
ConsumedOwn(msg, n) ==
    \/ n = Len(Bytes(msg))
    \/ msg.kind = "rawnl" /\ n = Len(Bytes(msg)) - 1

C13_BadVersionInErrorField ==
    (/\ Len(sent) >= 1 /\ Len(hist) >= 1
     /\ BadVersionRequest(sent[1]) /\ ConsumedOwn(sent[1], hist[1].consumed))
    => /\ hist[1].written = 1
       /\ LET m == WrittenMembers(out[hist[1].at]) IN
          /\ "error" \in DOMAIN m
          /\ "result" \notin DOMAIN m
          /\ m["id"] = sent[1].m["id"]

\* the operations of the batch of the last call, when its arguments have the
\* shape of BatchArgs
CallOperations == BatchArgsFromValue(call.arguments).val.operations

DistinctIds(operations) ==
    \A i, j \in 1..Len(operations) : operations[i].id = operations[j].id => i = j

\* C14: an empty batch, a batch of more than 50 operations and a batch with a
\* repeated id are rejected with an error, without results and without any
\* tool executed; a batch of exactly 50 operations with distinct ids is
\* accepted.
C14_BatchRejectedWhole ==
    (call # None /\ BatchArgsFromValue(call.arguments).ok) =>
        /\ (Len(CallOperations) = 0 \/ Len(CallOperations) > 50 \/ ~DistinctIds(CallOperations))
           => (~ret.ok /\ ret.err.code = INVALID_PARAMS /\ ret.executed = <<>>)
        /\ (Len(CallOperations) = 50 /\ DistinctIds(CallOperations))
           => (ret.ok /\ Len(ret.executed) = 50)

C14_Witness ==
    /\ call # None /\ BatchArgsFromValue(call.arguments).ok
    /\ Len(CallOperations) = 3 /\ CallOperations[1].id = "a" /\ CallOperations[3].id = "a"
    /\ CallOperations[2].id = "b"
    /\ ~ret.ok /\ ret.err.message = <<"Duplicate operation ID: ", "a">>

\* C15: in a batch that passes validation every operation is handed to the
\* registry once, in order, whatever the earlier ones returned; the i-th
\* result has the id of the i-th operation, success true and the result of
\* the tool, or success false and its error message.
C15_BatchRunsEveryOperation ==
    (call # None /\ BatchArgsFromValue(call.arguments).ok) =>
        LET ops == CallOperations IN
        (Len(ops) \in 1..50 /\ DistinctIds(ops)) =>
            /\ ret.ok
            /\ ret.executed = [i \in 1..Len(ops) |-> ops[i].tool]
            /\ ret.val.v["results"].t = "arr"
            /\ Len(ret.val.v["results"].v) = Len(ops)
            /\ \A i \in 1..Len(ops) :
                   LET top == execute_tool(ops[i].tool, ops[i].arguments)
                       entry == ret.val.v["results"].v[i].v
                   IN IF top.ok
                      THEN entry = [id |-> JStr(ops[i].id), success |-> JBool(TRUE), result |-> top.val]
                      ELSE entry = [id |-> JStr(ops[i].id), success |-> JBool(FALSE),
                                    error |-> JStr(top.err.message)]

C15_Witness ==
    /\ call # None /\ ret.ok
    /\ Len(ret.executed) = 3
    /\ ret.executed = <<"divide", "nonexistent_tool", "add">>
    /\ ret.val.v["results"].v[1].v["success"] = JBool(FALSE)
    /\ ret.val.v["results"].v[2].v["error"] = JStr(<<"Unknown tool: ", "nonexistent_tool">>)
    /\ ret.val.v["results"].v[3].v["success"] = JBool(TRUE)

\* C16: the summary of an accepted batch has total = number of operations =
\* number of results, successful and failed the numbers of results with
\* success true and false, and successful + failed = total.
C16_BatchSummaryCounts ==
    (call # None /\ ret.ok) =>
        LET results == ret.val.v["results"].v
            summary == ret.val.v["summary"].v
            Count(b) == Cardinality({i \in 1..Len(results) : results[i].v["success"] = JBool(b)})
        IN /\ summary["total"] = JNum(Len(CallOperations))
           /\ summary["total"] = JNum(Len(results))
           /\ summary["successful"] = JNum(Count(TRUE))
           /\ summary["failed"] = JNum(Count(FALSE))
           /\ summary["successful"].v + summary["failed"].v = summary["total"].v

C16_Witness ==
    /\ call # None /\ ret.ok
    /\ ret.executed = <<"add", "divide", "add">>
    /\ ret.val.v["summary"] = JObj([total |-> JNum(3), successful |-> JNum(2), failed |-> JNum(1)])

\* the finished check_rate_limit calls, in lock order
Checks == log

\* the capacity N the limiter was created with
Capacity == limiter.max_tokens \div OneToken(limiter)

\* C17: with no time elapsed since the limiter was created, the i-th
\* check_rate_limit is admitted exactly when i <= N (and so for the calls
\* made at one instant from a full bucket); an admitted call takes one token
\* from the refilled count and a rejected call takes none.
C17_AdmitsExactlyCapacity ==
    /\ \A i \in 1..Len(Checks) :
           Checks[i].time = 0 => (Checks[i].result <=> i <= Capacity)
    /\ \A i, j \in 1..Len(Checks) :
           (i <= j /\ Checks[i].refilled = limiter.max_tokens /\ Checks[j].time = Checks[i].time)
           => (Checks[j].result <=> j - i < Capacity)
    /\ \A i \in 1..Len(Checks) :
           Checks[i].after = Checks[i].refilled - (IF Checks[i].result THEN OneToken(limiter) ELSE 0)

C17_Witness ==
    /\ Capacity = 2 /\ Len(Checks) = 3 /\ clock = 0
    /\ Checks[1].result /\ Checks[2].result /\ ~Checks[3].result
    /\ limiter.tokens = 0

Admitted == Cardinality({i \in 1..Len(log) : log[i].result})

\* C19: calls of several threads on the shared state never admit more calls
\* than there are whole tokens: with no time elapsed at most N, in general
\* at most what the bucket held and the elapsed time added, and the count of
\* tokens never goes below zero.
C19_NoTokenSpentTwice ==
    /\ clock = 0 => Admitted <= Capacity
    /\ Admitted * OneToken(limiter) <= limiter.max_tokens + clock * limiter.refill_rate.num
    /\ limiter.tokens >= 0
    /\ \A t, u \in Threads : (threads[t].pc # "idle" /\ threads[u].pc # "idle") => t = u

C19_Witness ==
    /\ clock = 0 /\ Capacity = 1 /\ Len(log) = 2
    /\ log[1].thread # log[2].thread
    /\ log[1].result /\ ~log[2].result

\* C20: every write of send_response is "Content-Length:", the decimal N,
\* CR LF CR LF and one JSON object of exactly N bytes, with nothing after it;
\* stdout holds these writes only, one per response.
C20_LengthPrefixedExact ==
    /\ \A i \in 1..Len(out) :
           LET w == out[i]
               body == SubSeq(w, 5, Len(w))
           IN /\ Len(w) = 7
              /\ w[1] = [k |-> "cl"]
              /\ w[2].k = "len" /\ w[2].n = ByteLen(body)
              /\ w[3] = CRLF /\ w[4] = CRLF
              /\ body[1].k = "lb" /\ body[2].k = "members" /\ body[3].k = "rb"
              /\ w[2].n = 2 + Weight(body[2])
    /\ Len(out) = Cardinality({i \in 1..Len(hist) : hist[i].written = 1})
    /\ \A i \in 1..Len(hist) : hist[i].written <= 1

C20_Witness ==
    /\ Len(out) = 2 /\ Len(hist) = 2
    /\ hist[1].res.ok /\ ~hist[2].res.ok
    /\ out[1][2] = [k |-> "len", n |-> 3]

\* the names of the descriptors that tools/list returns, in order
ListedNames ==
    [i \in 1..Len(get_all_tools.v) |-> get_all_tools.v[i].v["name"].v]

C29_RegistryConsistent ==
    /\ \A i \in 1..Len(ListedNames) : ListedNames[i] \in DOMAIN TOOL_REGISTRY
    /\ \A name \in DOMAIN TOOL_REGISTRY : \E i \in 1..Len(ListedNames) : ListedNames[i] = name
    /\ \A i, j \in 1..Len(ListedNames) : ListedNames[i] = ListedNames[j] => i = j
    /\ (call # None /\ call.method = TOOLS_LIST) => ret.val.result = JObj([tools |-> TOOL_DEFINITIONS])
    /\ (/\ call # None /\ call.method = TOOLS_CALL /\ ret.ok /\ ret.executed # <<>>
        /\ \E i \in 1..Len(ListedNames) : ListedNames[i] = ret.executed[1])
       => LET result == ret.val.result.v IN
          "isError" \in DOMAIN result =>
              /\ result["content"].v[1].v["text"].v[2] # "Unknown tool: "
              /\ result["content"].v[1].v["text"].v[2] # "Unknown basic math tool: "
              /\ \A executor \in {algebra, statistics, geometry, equations, trigonometry,
                                   finance, combinatorics, advanced} :
                     result["content"].v[1].v["text"].v[2] # executor.unknown

\* the tool sum, registered from its descriptor, is called and its arm runs
C29_Witness ==
    /\ call # None /\ call.method = TOOLS_CALL /\ ret.ok
    /\ ret.executed = <<"sum">>
    /\ ret.val.result # None /\ "isError" \notin DOMAIN ret.val.result.v

\* C30: an operation whose tool is batch_operations runs as a batch of its
\* own through the registry, with the checks for no operation, more than 50
\* operations and a repeated id made on its own operations; when a check
\* fails the operation's result has success false and the message of the
\* check, and the enclosing batch still returns its results.
C30_NestedBatch ==
    (call # None /\ BatchArgsFromValue(call.arguments).ok) =>
        LET ops == CallOperations IN
        (Len(ops) \in 1..50 /\ DistinctIds(ops)) =>
            /\ ret.ok
            /\ \A i \in 1..Len(ops) :
                   (ops[i].tool = TOOL_BATCH /\ BatchArgsFromValue(ops[i].arguments).ok) =>
                       LET inner == BatchArgsFromValue(ops[i].arguments).val.operations
                           entry == ret.val.v["results"].v[i].v
                       IN /\ ret.executed[i] = TOOL_BATCH
                          /\ entry["id"] = JStr(ops[i].id)
                          /\ IF inner = <<>>
                             THEN /\ entry["success"] = JBool(FALSE)
                                  /\ entry["error"] = JStr(<<"No operations provided">>)
                             ELSE IF Len(inner) > 50
                             THEN /\ entry["success"] = JBool(FALSE)
                                  /\ entry["error"].v[1] = "Batch size exceeds maximum of "
                             ELSE IF ~DistinctIds(inner)
                             THEN /\ entry["success"] = JBool(FALSE)
                                  /\ entry["error"].v[1] = "Duplicate operation ID: "
                             ELSE /\ entry["success"] = JBool(TRUE)
                                  /\ Len(entry["result"].v["results"].v) = Len(inner)
                                  /\ entry["result"].v["summary"].v["total"] = JNum(Len(inner))

\* a batch of a nested batch, which holds a batch that runs and an empty one,
\* and an add
C30_Witness ==
    /\ call # None /\ ret.ok
    /\ ret.executed = <<TOOL_BATCH, "add">>
    /\ LET outer == ret.val.v["results"].v
           inner == outer[1].v["result"].v["results"].v
       IN /\ outer[1].v["success"] = JBool(TRUE)
          /\ outer[2].v["success"] = JBool(TRUE)
          /\ Len(inner) = 2
          /\ inner[1].v["success"] = JBool(TRUE)
          /\ inner[2].v["success"] = JBool(FALSE)
          /\ inner[2].v["error"] = JStr(<<"No operations provided">>)

\* C27: whatever calls of check_rate_limit and available_tokens are made and
\* however time passes between them, tokens stays between 0 and max_tokens,
\* and no step of an available_tokens call lowers it.
C27_TokensBounded ==
    [][ /\ 0 <= limiter.tokens /\ limiter.tokens <= limiter.max_tokens
        /\ 0 <= limiter'.tokens /\ limiter'.tokens <= limiter'.max_tokens
        /\ \A t \in Threads :
               (threads[t].op = "available" /\ threads'[t] # threads[t])
               => limiter'.tokens >= limiter.tokens ]_vars

\* an available_tokens call has refilled a limiter that a check had taken a
\* token from, after time has passed
C27_Witness ==
    /\ \E t \in Threads : threads[t].op = "available" /\ threads[t].pc = "refilled"
    /\ \E i \in 1..Len(log) : log[i].result /\ log[i].after < limiter.tokens
    /\ clock > 0 /\ limiter.tokens > 0

\* C22: in the bare JSON framing the reader reads more only while the
\* accumulated bytes are a truncated JSON text; a complete object that is no
\* request (it has no method) ends the call with ParseError (-32700) when
\* its last byte is read, with none of the input after it consumed.
C22_OnlyTruncatedReadsMore ==
    /\ pc = "raw" => (~FromSlice(line).ok /\ FromSlice(line).cat = "eof")
    /\ (/\ Len(sent) >= 1 /\ Len(hist) >= 1
        /\ sent[1].kind = "raw" /\ sent[1].m = NoMethod(1) /\ ~sent[1].cut)
       => /\ ~hist[1].res.ok
          /\ hist[1].res.err.code = PARSE_ERROR
          /\ hist[1].consumed = Len(Bytes(sent[1]))

\* C23: the bytes accumulated for a bare JSON message never exceed
\* MAX_CONTENT_LENGTH, and no bare JSON message above it is returned as a
\* request.
C23_BareJsonCeiling ==
    /\ pc = "raw" => ByteLen(line) <= MAX_CONTENT_LENGTH
    /\ \A i \in Answered :
           (Len(sent) = 1 /\ sent[1].kind = "rawbig") => hist[i].res.val.uses_content_length

\* C24: a length-prefixed read that succeeds has consumed the header line,
\* one line after it and the declared number of body bytes, and the next
\* call starts at the byte after the body; a body that ends before the
\* declared length fails with InternalError and no request is returned.
C24_LengthPrefixedConsumed ==
    /\ (/\ Len(sent) = 1 /\ sent[1].kind \in {"lp", "lplp"} /\ ~sent[1].cut /\ Len(hist) >= 1)
       => LET one == LengthPrefixed(Object(sent[1].m, 0), ByteLen(Object(sent[1].m, 0))) IN
          /\ hist[1].consumed = Len(one)
          /\ FromSlice(Object(sent[1].m, 0)).ok =>
                 (hist[1].res.ok => hist[1].res.val.request = FromSlice(Object(sent[1].m, 0)).val)
          /\ (Len(hist) = 1 /\ pc = "detect") =>
                 buf \o stdin \o pending = SubSeq(Bytes(sent[1]), Len(one) + 1, Len(Bytes(sent[1])))
          /\ (sent[1].kind = "lplp" /\ Len(hist) >= 2) =>
                 (hist[2].consumed = Len(one) /\ hist[2].res = hist[1].res)
    /\ (/\ Len(sent) = 1 /\ sent[1].kind \in {"lp", "lpshort"}
        /\ sent[1].kind = "lp" => sent[1].cut)
       => /\ Answered = {}
          /\ (Len(hist) >= 1 /\ hist[1].consumed >= 4)
             => hist[1].res.err.code = INTERNAL_ERROR

\* two length-prefixed requests written back to back are both returned, each
\* from a call that consumed the bytes of one
C24_Witness ==
    /\ pc = "done" /\ Len(sent) = 1 /\ sent[1].kind = "lplp" /\ ~sent[1].cut
    /\ Len(hist) = 3
    /\ hist[1].res.ok /\ hist[2].res.ok
    /\ hist[1].consumed = 7 /\ hist[2].consumed = 7
    /\ Len(out) = 2

\* C25: a bare JSON request with white space before its "{" (the line end
\* that ended the request before it, or one sent ahead of it) is read as
\* bare JSON: no call fails on it and nothing but the answers is written.
C25_LeadingWhitespaceIsBareJson ==
    (/\ Len(sent) >= 1
     /\ \A i \in 1..Len(sent) :
            sent[i].kind \in {"rawnl", "nlraw"} /\ sent[i].m = ListTools(i) /\ ~sent[i].cut)
    => /\ \A i \in 1..Len(hist) : hist[i].res.ok \/ IsCleanShutdown(hist[i].res.err)
       /\ Len(out) <= Len(sent)

\* C26: a line that starts neither way makes the call return InvalidRequest
\* (-32600) with a preview of at most 50 characters of the line, whatever
\* bytes the line holds; the call reads no more than the line and always
\* returns.
C26_UnknownFormatRejected ==
    /\ pc # "panicked"
    /\ (/\ Len(sent) >= 1 /\ Len(hist) >= 1 /\ hist[1].consumed >= 1
        /\ sent[1].kind \in {"garbage", "line49mb", "line50mb", "line60", "linebad8"})
       => /\ ~hist[1].res.ok
          /\ hist[1].res.err.code = INVALID_REQUEST
          /\ LET message == hist[1].res.err.message
                 dots == IF message[Len(message)] = "..." THEN 1 ELSE 0
             IN /\ message[1] = "Unknown message format, expected Content-Length header or JSON, got: "
                /\ Len(message) - 1 - dots <= 50
          /\ hist[1].consumed <= Len(Bytes(sent[1]))

\* C28: every failure of parse_message but the clean end of input is
\* answered by one response with a null id, no error member and the result
\* { content: [ { type: text, text: "Parse error: <message>" } ], isError:
\* true }, written as bare JSON, and the loop goes on.
C28_ParseFailureAnswered ==
    \A i \in 1..Len(hist) :
        (~hist[i].res.ok /\ ~IsCleanShutdown(hist[i].res.err)) =>
            /\ hist[i].written = 1
            /\ hist[i].next = "detect"
            /\ LET m == WrittenMembers(out[hist[i].at]) IN
               /\ m["id"] = JNull
               /\ "error" \notin DOMAIN m
               /\ m["result"] = ErrorContent(<<"Parse error: ">> \o hist[i].res.err.message)
            /\ IsBareJson(out[hist[i].at])

====
